---- MODULE Spec2Model ----
(***************************************************************************)
(* Model of ConfigSieve::parse_sieve (crates/smtp/src/config/scripts.rs):  *)
(* the translation of the `sieve.*` configuration keys into a SieveCore    *)
(* record, with the mutable ConfigContext it reads and writes.             *)
(*                                                                         *)
(* One behaviour is one call of parse_sieve.  The configuration, the files *)
(* it names and the context at entry are chosen in Init; the call then     *)
(* runs step by step in the order of the source: the six limit             *)
(* properties, the hostname, the script loop, the signer loop and the      *)
(* assembly of the returned record.                                        *)
(***************************************************************************)
EXTENDS Integers, Sequences, FiniteSets, TLC

VARIABLES
    cfg,        \* the Config (&self) and the files its script keys name
    ctx,        \* the ConfigContext (&mut ctx)
    entry,      \* history: ctx as it was when parse_sieve was called
    pc,         \* position of the call in the function body
    idx,        \* cursor of the loop the call is in
    runtime,    \* local `runtime`
    hostname,   \* local `hostname` (None until line 87 has run)
    sign,       \* local `sign` vector
    result      \* the value parse_sieve returned (tag "Running" before that)

vars == <<cfg, ctx, entry, pc, idx, runtime, hostname, sign, result>>

-----------------------------------------------------------------------------
(* Option<T> as a sequence of length at most one.                          *)
None == <<>>
Some(v) == <<v>>
IsSome(o) == o /= <<>>
Unwrap(o) == o[1]

(* A string that is formatted with {:?} (an identifier, a key) is a        *)
(* sequence of characters, each the code point of an ASCII character.      *)
(* A message is a sequence of pieces read one after the other: a piece is  *)
(* either literal text of the format string or the code point of one       *)
(* character written by {:?}.                                              *)

(* {:x}: lower-case hexadecimal without leading zeros, as code points.     *)
HexDigit(d) == IF d < 10 THEN 48 + d ELSE 87 + d

RECURSIVE Hex(_)
Hex(n) ==
    IF n < 16 THEN <<HexDigit(n)>>
    ELSE Append(Hex(n \div 16), HexDigit(n % 16))

(* char::escape_debug as {:?} of a str applies it: \0, \t, \r, \n, the     *)
(* backslash and the double quote are written with a backslash (92)        *)
(* before them (the single quote is not); a printable character is written *)
(* as it is; any other one (the remaining control characters and DEL) as   *)
(* \u{hex}.  Defined on the ASCII characters.                              *)
EscapeChar(ch) ==
    CASE ch = 0 -> <<92, 48>>
      [] ch = 9 -> <<92, 116>>
      [] ch = 13 -> <<92, 114>>
      [] ch = 10 -> <<92, 110>>
      [] ch = 92 -> <<92, 92>>
      [] ch = 34 -> <<92, 34>>
      [] ch \in (32..126) \ {34, 92} -> <<ch>>
      [] ch \in (1..31 \cup {127}) \ {9, 10, 13} ->
            <<92, 117, 123>> \o Hex(ch) \o <<125>>

RECURSIVE EscapeDebug(_)
EscapeDebug(s) ==
    IF s = <<>> THEN <<>> ELSE EscapeChar(Head(s)) \o EscapeDebug(Tail(s))

(* {:?} of a Rust string: its escaped characters in double quotes (34).    *)
Debug(s) == <<34>> \o EscapeDebug(s) \o <<34>>

(* AsKey for a pair: the two parts joined by a dot.                        *)
AsKey(prefix, sub) == prefix \o <<46>> \o sub

-----------------------------------------------------------------------------
(* Bounds of the model.                                                    *)
MaxSign == 2        \* longest `sieve.sign` list
MaxLimitKeys == 1   \* most `sieve.limits.*` keys present in one configuration

-----------------------------------------------------------------------------
(* The six limit properties, in the order the source reads them, and the   *)
(* runtime field each one sets.                                            *)
LimitKeys ==
    << "sieve.limits.redirects",
       "sieve.limits.out-messages",
       "sieve.limits.cpu",
       "sieve.limits.nested-includes",
       "sieve.limits.received-headers",
       "sieve.limits.duplicate-expiry" >>

LimitFields ==
    << "max_redirects",
       "max_out_messages",
       "cpu_limit",
       "max_nested_includes",
       "max_received_headers",
       "default_duplicate_expiry" >>

LimitIdx == DOMAIN LimitKeys

(* The key that is read as a Duration (line 84); the others are integers.  *)
DurationKey == "sieve.limits.duplicate-expiry"

(* Raw values a limit key may hold: one that parses as an integer, one     *)
(* that parses as a duration (with its unit, 7999 milliseconds), and one   *)
(* that parses as neither.                                                 *)
GoodLimit == "7"
GoodDuration == "7999ms"
BadLimit == "many"
LimitRaw(key) ==
    IF key = DurationKey THEN {GoodDuration, BadLimit} ELSE {GoodLimit, BadLimit}

(* Config::property::<T>(key) for an integer T: Ok(None) when the key is   *)
(* absent, Ok(Some(v)) when its value parses, Err otherwise.               *)
Property(key, raw) ==
    IF raw = None THEN [ok |-> TRUE, val |-> None, err |-> <<>>]
    ELSE IF Unwrap(raw) = GoodLimit
         THEN [ok |-> TRUE, val |-> Some(7), err |-> <<>>]
         ELSE [ok |-> FALSE, val |-> None,
               err |-> <<"Invalid value for property " \o key \o ".">>]

(* Config::property::<Duration>(key): the duration in milliseconds.        *)
PropertyDuration(key, raw) ==
    IF raw = None THEN [ok |-> TRUE, val |-> None, err |-> <<>>]
    ELSE IF Unwrap(raw) = GoodDuration
         THEN [ok |-> TRUE, val |-> Some(7999), err |-> <<>>]
         ELSE [ok |-> FALSE, val |-> None,
               err |-> <<"Invalid value for property " \o key \o ".">>]

(* Duration::as_secs (line 85): the whole seconds of a duration given in   *)
(* milliseconds.                                                           *)
AsSecs(ms) == ms \div 1000

(* Config::value(key) on the hostname / identity / directory keys is the   *)
(* Option stored in cfg.  Config::value_require(key).                      *)
ValueRequire(key, raw) ==
    IF IsSome(raw) THEN [ok |-> TRUE, val |-> Unwrap(raw), err |-> <<>>]
    ELSE [ok |-> FALSE, val |-> "",
          err |-> <<"Property " \o key \o " not found in configuration.">>]

-----------------------------------------------------------------------------
(* Scripts.  sub_keys("sieve.scripts") yields the sub-keys in key order.   *)
ScriptA == <<97>>                        \* a
ScriptB == <<98, 12>>                    \* b followed by a form feed
ScriptZ == <<122>>                       \* z
ScriptIds == <<ScriptA, ScriptB>>
SieveScriptsKey ==                       \* sieve.scripts
    <<115, 105, 101, 118, 101, 46, 115, 99, 114, 105, 112, 116, 115>>
GoodScript == "keep;"
BadScript == "kep;"

(* What the file of a script key holds: None when it cannot be read.       *)
FileStates == {None, Some(GoodScript), Some(BadScript)}

RECURSIVE SelectIds(_, _)
SelectIds(ids, present) ==
    IF ids = <<>> THEN <<>>
    ELSE IF Head(ids) \in present
         THEN <<Head(ids)>> \o SelectIds(Tail(ids), present)
         ELSE SelectIds(Tail(ids), present)

SubKeys(c) == SelectIds(ScriptIds, DOMAIN c.scripts)

(* Config::file_contents(("sieve.scripts", id)).                           *)
FileContents(c, id) ==
    IF IsSome(c.scripts[id])
    THEN [ok |-> TRUE, val |-> Unwrap(c.scripts[id]), err |-> <<>>]
    ELSE [ok |-> FALSE, val |-> "",
          err |-> <<"Failed to read file for property ">>
                  \o Debug(AsKey(SieveScriptsKey, id)) \o <<".">>]

(* Compiler::compile(&script): the compiled object, or a diagnostic.       *)
Compiled(src) == [source |-> src]
Compile(src) ==
    IF src = GoodScript
    THEN [ok |-> TRUE, val |-> Compiled(src), err |-> ""]
    ELSE [ok |-> FALSE, val |-> Compiled(""), err |-> "invalid command"]

CompileErr(id, diag) ==
    <<"Failed to compile Sieve script ">> \o Debug(id) \o <<": ", diag>>

-----------------------------------------------------------------------------
(* Signers.  values("sieve.sign") yields (position, identifier) pairs in   *)
(* list order.                                                             *)
SignerRsa == <<114, 115, 97>>            \* rsa
SignerEd == <<101, 34, 100>>             \* e"d
SignerIds == {SignerRsa, SignerEd}
PosStr == << <<48>>, <<49>>, <<50>>, <<51>> >>      \* 0, 1, 2, 3
SieveSignKey == <<115, 105, 101, 118, 101, 46, 115, 105, 103, 110>>  \* sieve.sign
SignerHandle(id) == [dkim |-> id]

(* Variant of SignerErr: the key without the position of the entry.           *)
SignerErr_NoPos(id, pos) ==
    <<"No DKIM signer found with id ">> \o Debug(id)
    \o <<" for key ">> \o Debug(SieveSignKey) \o <<".">>

(* Lines 112-116.                                                          *)
SignerErr(id, pos) ==
    <<"No DKIM signer found with id ">> \o Debug(id)
    \o <<" for key ">> \o Debug(AsKey(SieveSignKey, pos)) \o <<".">>

(* Directories.                                                            *)
DirSql == <<115, 113, 108>>              \* sql
DirLdap == <<108, 100, 92, 97, 112>>     \* ld\ap
DirectoryHandle(id) == [directory |-> id]
DirectoryErr(db) ==
    <<"Directory ">> \o Debug(db)
    \o <<" not found for key \"sieve.use-directory\".">>

-----------------------------------------------------------------------------
(* Results of parse_sieve.  `cat` is the step that produced an error.      *)
Running == [tag |-> "Running", cat |-> "", msg |-> <<>>, core |-> <<>>]
Err(cat, msg) == [tag |-> "Err", cat |-> cat, msg |-> msg, core |-> <<>>]
Ok(core) == [tag |-> "Ok", cat |-> "", msg |-> <<>>, core |-> Some(core)]

-----------------------------------------------------------------------------
(* Compiler::new() with its fixed limits; the second with_max_string_size  *)
(* overrides the first.                                                    *)
CompilerNew ==
    [ max_string_size |-> 10240,
      max_variable_name_size |-> 100,
      max_nested_blocks |-> 50,
      max_nested_tests |-> 50,
      max_nested_foreverypart |-> 10,
      max_local_variables |-> 128,
      max_header_size |-> 10240,
      max_includes |-> 10 ]

DisabledCapabilities ==
    { "FileInto", "Vacation", "VacationSeconds", "Fcc", "Mailbox",
      "MailboxId", "MboxMetadata", "ServerMetadata", "ImapSieve",
      "Duplicate" }

(* Runtime::new() as configured before any key is read: every limit a key  *)
(* can override is at the default of the engine (None).                       *)
RuntimeNew(c) ==
    [ disabled |-> DisabledCapabilities \ {"Execute"},
      enabled |-> {"Execute"},
      max_variable_size |-> 102400,
      max_header_size |-> 10240,
      valid_notification_uri |-> {"mailto"},
      valid_ext_lists |-> DOMAIN c.directory.lookups,
      max_redirects |-> None,
      max_out_messages |-> None,
      cpu_limit |-> None,
      max_nested_includes |-> None,
      max_received_headers |-> None,
      default_duplicate_expiry |-> None,
      local_hostname |-> None ]

-----------------------------------------------------------------------------
(* The inputs of a call.                                                   *)
SieveHostnames == {None, Some("sieve.example.org")}
ServerHostnames == {None, Some("mx.example.org")}
UseDirectories == {None, Some(DirSql), Some(DirLdap)}

RECURSIVE SeqsUpTo(_, _)
SeqsUpTo(S, n) ==
    IF n = 0 THEN {<<>>}
    ELSE LET shorter == SeqsUpTo(S, n - 1)
         IN  shorter \cup {Append(s, x) : s \in shorter, x \in S}

LimitConfigs ==
    { l \in [LimitIdx -> {None, Some(GoodLimit), Some(GoodDuration), Some(BadLimit)}] :
        /\ \A i \in LimitIdx :
              IsSome(l[i]) => Unwrap(l[i]) \in LimitRaw(LimitKeys[i])
        /\ Cardinality({i \in LimitIdx : IsSome(l[i])}) <= MaxLimitKeys }

ScriptConfigs ==
    UNION { [ids -> FileStates] : ids \in SUBSET {ScriptIds[i] : i \in DOMAIN ScriptIds} }

(* The identity keys: the address alone, or the name and the return path   *)
(* without the address.                                                    *)
IdentityConfigs ==
    { [from_addr |-> Some("sieve@example.org"), from_name |-> None,
       return_path |-> None],
      [from_addr |-> None, from_name |-> Some("Sieve Daemon"),
       return_path |-> Some("bounce@example.org")] }

Configs ==
    [ limits : LimitConfigs,
      sieve_hostname : SieveHostnames,
      server_hostname : ServerHostnames,
      scripts : ScriptConfigs,
      sign : SeqsUpTo(SignerIds, MaxSign),
      identity : IdentityConfigs,
      use_directory : UseDirectories ]

(* The script cache at entry: empty on a first call, or holding entries of *)
(* an earlier one.                                                         *)
OldScript == Compiled("stop;")
ScriptCaches == { <<>>, [id \in {ScriptA, ScriptZ} |-> OldScript] }

Contexts ==
    [ scripts : ScriptCaches,
      signers : { [id \in ids |-> SignerHandle(id)] : ids \in {{SignerRsa}, {SignerRsa, SignerEd}} },
      directory : { [ lookups |-> [id \in {"list/blocked"} |-> [lookup |-> id]],
                      directories |-> [id \in {DirSql} |-> DirectoryHandle(id)] ] } ]

-----------------------------------------------------------------------------
(* Steps of parse_sieve.                                                   *)

(* Variants of ResolveHostname: the server key preferred to the override;  *)
(* an empty default instead of the error; the server key required even     *)
(* when the override is present.                                           *)
ResolveHostname_ServerFirst(c) ==
    IF IsSome(c.server_hostname)
    THEN [ok |-> TRUE, val |-> Unwrap(c.server_hostname), err |-> <<>>]
    ELSE IF IsSome(c.sieve_hostname)
         THEN [ok |-> TRUE, val |-> Unwrap(c.sieve_hostname), err |-> <<>>]
         ELSE ValueRequire("server.hostname", c.server_hostname)

ResolveHostname_Default(c) ==
    IF IsSome(c.sieve_hostname)
    THEN [ok |-> TRUE, val |-> Unwrap(c.sieve_hostname), err |-> <<>>]
    ELSE IF IsSome(c.server_hostname)
         THEN [ok |-> TRUE, val |-> Unwrap(c.server_hostname), err |-> <<>>]
         ELSE [ok |-> TRUE, val |-> "", err |-> <<>>]

ResolveHostname_RequireServer(c) ==
    IF ~IsSome(c.server_hostname)
    THEN ValueRequire("server.hostname", c.server_hostname)
    ELSE IF IsSome(c.sieve_hostname)
         THEN [ok |-> TRUE, val |-> Unwrap(c.sieve_hostname), err |-> <<>>]
         ELSE [ok |-> TRUE, val |-> Unwrap(c.server_hostname), err |-> <<>>]

(* Lines 87-91: the override key, else the required server key.            *)
ResolveHostname(c) ==
    IF IsSome(c.sieve_hostname)
    THEN [ok |-> TRUE, val |-> Unwrap(c.sieve_hostname), err |-> <<>>]
    ELSE ValueRequire("server.hostname", c.server_hostname)

(* Variants of InsertScript: an entry already cached is kept; the cache is *)
(* replaced by the new entry.                                              *)
InsertScript_KeepOld(scripts, id, compiled) ==
    [k \in DOMAIN scripts \cup {id} |->
        IF k \in DOMAIN scripts THEN scripts[k] ELSE compiled]

InsertScript_Replace(scripts, id, compiled) ==
    [k \in {id} |-> compiled]

(* Lines 97-103: ctx.scripts.insert(id, compiled).                         *)
InsertScript(scripts, id, compiled) ==
    [k \in DOMAIN scripts \cup {id} |-> IF k = id THEN compiled ELSE scripts[k]]

(* Variant of PushSigner: a handle already in the list is not added again. *)
PushSigner_Dedup(sg, dkim) ==
    IF \E i \in DOMAIN sg : sg[i] = dkim THEN sg ELSE Append(sg, dkim)

(* Line 110: sign.push(dkim.clone()).                                      *)
PushSigner(sg, dkim) == Append(sg, dkim)

(* Line 109: ctx.signers.get(id).                                          *)
GetSigner(signers, id) ==
    IF id \in DOMAIN signers THEN Some(signers[id]) ELSE None

(* Variant of FromAddr: the default address without the resolved hostname. *)
FromAddr_NoHost(c, host) ==
    IF IsSome(c.identity.from_addr) THEN Unwrap(c.identity.from_addr)
    ELSE "MAILER-DAEMON@localhost"

(* Lines 125-128.                                                          *)
FromAddr(c, host) ==
    IF IsSome(c.identity.from_addr) THEN Unwrap(c.identity.from_addr)
    ELSE "MAILER-DAEMON@" \o host

(* Lines 129-132.                                                          *)
FromName(c) ==
    IF IsSome(c.identity.from_name) THEN Unwrap(c.identity.from_name) ELSE "Mailer Daemon"

(* Lines 133-136.                                                          *)
ReturnPath(c) ==
    IF IsSome(c.identity.return_path) THEN Unwrap(c.identity.return_path) ELSE ""

(* Variant of ResolveDb: an unknown backend is treated as none.            *)
ResolveDb_Lenient(c, directories) ==
    IF IsSome(c.use_directory) /\ Unwrap(c.use_directory) \in DOMAIN directories
    THEN [ok |-> TRUE, val |-> Some(directories[Unwrap(c.use_directory)]),
          err |-> <<>>]
    ELSE [ok |-> TRUE, val |-> None, err |-> <<>>]

(* Lines 138-148: the optional storage backend.                            *)
ResolveDb(c, directories) ==
    IF IsSome(c.use_directory)
    THEN IF Unwrap(c.use_directory) \in DOMAIN directories
         THEN [ok |-> TRUE, val |-> Some(directories[Unwrap(c.use_directory)]),
               err |-> <<>>]
         ELSE [ok |-> FALSE, val |-> None,
               err |-> DirectoryErr(Unwrap(c.use_directory))]
    ELSE [ok |-> TRUE, val |-> None, err |-> <<>>]

(* Lines 120-150: the returned record.                                     *)
SieveCore(c, x, rt, host, sg, db) ==
    [ runtime |-> rt,
      scripts |-> x.scripts,
      lookup |-> x.directory.lookups,
      config |-> [ from_addr |-> FromAddr(c, host),
                   from_name |-> FromName(c),
                   return_path |-> ReturnPath(c),
                   sign |-> sg,
                   db |-> db ] ]

(* Where the call goes after the hostname and after the script loop: a     *)
(* loop over nothing is skipped.                                           *)
AfterScripts(c) == IF c.sign = <<>> THEN "assemble" ELSE "sign"
AfterHostname(c) == IF SubKeys(c) = <<>> THEN AfterScripts(c) ELSE "scripts"

-----------------------------------------------------------------------------
Init ==
    /\ cfg \in Configs
    /\ ctx \in Contexts
    /\ entry = ctx
    /\ pc = "limits"
    /\ idx = 1
    /\ runtime = RuntimeNew(ctx)
    /\ hostname = None
    /\ sign = <<>>
    /\ result = Running

(* An early return with an error.                                          *)
Return(r) ==
    /\ result' = r
    /\ pc' = "done"

(* The value limit i sets on the runtime: the parsed integer (lines 69-83) *)
(* or, for the duration key, the whole seconds of the parsed duration      *)
(* (lines 84-85).                                                          *)
LimitProperty(c, i) ==
    IF LimitKeys[i] = DurationKey
    THEN LET d == PropertyDuration(LimitKeys[i], c.limits[i])
         IN  [ok |-> d.ok,
              val |-> IF IsSome(d.val) THEN Some(AsSecs(Unwrap(d.val))) ELSE None,
              err |-> d.err]
    ELSE Property(LimitKeys[i], c.limits[i])

(* Variant of ApplyLimits: a value that does not parse is skipped.         *)
RECURSIVE ApplyLimits_Lenient(_, _, _)
ApplyLimits_Lenient(c, rt, i) ==
    IF i > Len(LimitKeys) THEN [ok |-> TRUE, val |-> rt, err |-> <<>>]
    ELSE LET p == LimitProperty(c, i)
         IN  ApplyLimits_Lenient(c,
                                 IF p.ok /\ IsSome(p.val)
                                 THEN [rt EXCEPT ![LimitFields[i]] = p.val]
                                 ELSE rt,
                                 i + 1)

(* Lines 69-86: the six `if let Some(value) = self.property(key)?`, from   *)
(* key i on; the first value that does not parse ends the call.            *)
RECURSIVE ApplyLimits(_, _, _)
ApplyLimits(c, rt, i) ==
    IF i > Len(LimitKeys) THEN [ok |-> TRUE, val |-> rt, err |-> <<>>]
    ELSE LET p == LimitProperty(c, i)
         IN  IF ~p.ok THEN [ok |-> FALSE, val |-> rt, err |-> p.err]
             ELSE ApplyLimits(c,
                              IF IsSome(p.val)
                              THEN [rt EXCEPT ![LimitFields[i]] = p.val]
                              ELSE rt,
                              i + 1)

SetLimits ==
    /\ pc = "limits"
    /\ LET l == ApplyLimits(cfg, runtime, 1)
       IN  IF ~l.ok
           THEN /\ Return(Err("limit", l.err))
                /\ UNCHANGED <<cfg, ctx, entry, idx, runtime, hostname, sign>>
           ELSE /\ runtime' = l.val
                /\ pc' = "hostname"
                /\ UNCHANGED <<cfg, ctx, entry, idx, hostname, sign, result>>

(* Lines 87-92.                                                            *)
SetHostname ==
    /\ pc = "hostname"
    /\ LET h == ResolveHostname(cfg)
       IN  IF ~h.ok
           THEN /\ Return(Err("hostname", h.err))
                /\ UNCHANGED <<cfg, ctx, entry, idx, runtime, hostname, sign>>
           ELSE /\ hostname' = Some(h.val)
                /\ runtime' = [runtime EXCEPT !.local_hostname = Some(h.val)]
                /\ pc' = AfterHostname(cfg)
                /\ idx' = 1
                /\ UNCHANGED <<cfg, ctx, entry, sign, result>>

(* Lines 95-104: one iteration of the script loop.                         *)
CompileScript ==
    /\ pc = "scripts"
    /\ LET id == SubKeys(cfg)[idx]
           file == FileContents(cfg, id)
           obj == Compile(file.val)
       IN  IF ~file.ok
           THEN /\ Return(Err("file", file.err))
                /\ UNCHANGED <<cfg, ctx, entry, idx, runtime, hostname, sign>>
           ELSE IF ~obj.ok
           THEN /\ Return(Err("compile", CompileErr(id, obj.err)))
                /\ UNCHANGED <<cfg, ctx, entry, idx, runtime, hostname, sign>>
           ELSE /\ ctx' = [ctx EXCEPT !.scripts = InsertScript(ctx.scripts, id, obj.val)]
                /\ IF idx < Len(SubKeys(cfg))
                   THEN idx' = idx + 1 /\ pc' = "scripts"
                   ELSE idx' = 1 /\ pc' = AfterScripts(cfg)
                /\ UNCHANGED <<cfg, entry, runtime, hostname, sign, result>>

(* Lines 107-118: one iteration of the signer loop.                        *)
ResolveSigner ==
    /\ pc = "sign"
    /\ LET id == cfg.sign[idx]
           dkim == GetSigner(ctx.signers, id)
       IN  IF IsSome(dkim)
           THEN /\ sign' = PushSigner(sign, Unwrap(dkim))
                /\ IF idx < Len(cfg.sign)
                   THEN idx' = idx + 1 /\ pc' = "sign"
                   ELSE idx' = 1 /\ pc' = "assemble"
                /\ UNCHANGED <<cfg, ctx, entry, runtime, hostname, result>>
           ELSE /\ Return(Err("signer", SignerErr(id, PosStr[idx])))
                /\ UNCHANGED <<cfg, ctx, entry, idx, runtime, hostname, sign>>

(* Lines 120-150.                                                          *)
Assemble ==
    /\ pc = "assemble"
    /\ LET db == ResolveDb(cfg, ctx.directory.directories)
       IN  IF ~db.ok
           THEN Return(Err("directory", db.err))
           ELSE Return(Ok(SieveCore(cfg, ctx, runtime, Unwrap(hostname), sign, db.val)))
    /\ UNCHANGED <<cfg, ctx, entry, idx, runtime, hostname, sign>>

Next ==
    \/ SetLimits
    \/ SetHostname
    \/ CompileScript
    \/ ResolveSigner
    \/ Assemble

Spec == Init /\ [][Next]_vars

-----------------------------------------------------------------------------
(* What a configuration and the context at entry say, read off the inputs  *)
(* and not off the run.                                                    *)
Done == pc = "done"
Succeeded == result.tag = "Ok"
Failed == result.tag = "Err"
Core == Unwrap(result.core)

Min(S) == CHOOSE m \in S : \A n \in S : m <= n

BadLimits == {i \in LimitIdx : cfg.limits[i] = Some(BadLimit)}
NoHostname == cfg.sieve_hostname = None /\ cfg.server_hostname = None
ExpectedHostname ==
    IF cfg.sieve_hostname /= None THEN cfg.sieve_hostname[1]
    ELSE cfg.server_hostname[1]
FailingScripts ==
    {i \in DOMAIN SubKeys(cfg) : cfg.scripts[SubKeys(cfg)[i]] /= Some(GoodScript)}
UnknownSigners == {i \in DOMAIN cfg.sign : cfg.sign[i] \notin DOMAIN entry.signers}
UnknownDirectory ==
    /\ cfg.use_directory /= None
    /\ cfg.use_directory[1] \notin DOMAIN entry.directory.directories

(* The call gets as far as the hostname, the signer loop, the assembly.    *)
ReachesHostname == BadLimits = {}
ReachesSigners == ReachesHostname /\ ~NoHostname /\ FailingScripts = {}
ReachesAssembly == ReachesSigners /\ UnknownSigners = {}

-----------------------------------------------------------------------------
(* C1: once parse_sieve has got past hostname resolution, the resolved     *)
(* hostname (the local and the one set on the runtime) is the value of     *)
(* sieve.hostname when that key is present and of server.hostname          *)
(* otherwise.                                                              *)
C1_HostnameResolved ==
    (pc \notin {"limits", "hostname"} /\ ReachesHostname /\ ~NoHostname)
        => /\ hostname = Some(ExpectedHostname)
           /\ runtime.local_hostname = Some(ExpectedHostname)
           /\ (cfg.sieve_hostname = None
                 => runtime.local_hostname = cfg.server_hostname)
           /\ (Succeeded => Core.runtime.local_hostname = Some(ExpectedHostname))

C1_Witness ==
    /\ Succeeded
    /\ cfg.sieve_hostname = None
    /\ Core.runtime.local_hostname = Some("mx.example.org")

(* C2: on success the from-address is sieve.from-addr when present, and    *)
(* MAILER-DAEMON@<hostname> otherwise, with the hostname set on the        *)
(* runtime (the override when present, else server.hostname).              *)
C2_FromAddr ==
    Succeeded =>
        /\ (cfg.identity.from_addr /= None
              => Core.config.from_addr = cfg.identity.from_addr[1])
        /\ (cfg.identity.from_addr = None
              => /\ Core.config.from_addr = "MAILER-DAEMON@" \o ExpectedHostname
                 /\ Core.config.from_addr
                      = "MAILER-DAEMON@" \o Core.runtime.local_hostname[1])

C2_Witness ==
    /\ Succeeded
    /\ cfg.identity.from_addr = None
    /\ cfg.sieve_hostname /= None
    /\ cfg.server_hostname /= None
    /\ Core.config.from_addr = "MAILER-DAEMON@sieve.example.org"

(* C3 as stated: on success the key set of the returned script registry    *)
(* equals the set of sieve.scripts sub-keys, whatever the cache held.      *)
C3_Original ==
    Succeeded => DOMAIN Core.scripts = DOMAIN cfg.scripts

(* C3 amended: on success the registry holds, under every sub-key, the     *)
(* script compiled from the file of that sub-key, and besides these exactly*)
(* entries the cache held at entry under other keys; its key set is the    *)
(* set of sub-keys when the cache was empty at entry.                      *)
C3_Registry ==
    Succeeded =>
        /\ DOMAIN Core.scripts = DOMAIN cfg.scripts \cup DOMAIN entry.scripts
        /\ \A id \in DOMAIN cfg.scripts :
              Core.scripts[id] = Compiled(cfg.scripts[id][1])
        /\ \A k \in DOMAIN entry.scripts \ DOMAIN cfg.scripts :
              Core.scripts[k] = entry.scripts[k]
        /\ (entry.scripts = <<>> => DOMAIN Core.scripts = DOMAIN cfg.scripts)

C3_Witness ==
    /\ Succeeded
    /\ DOMAIN cfg.scripts = {ScriptA, ScriptB}
    /\ DOMAIN entry.scripts = {ScriptA, ScriptZ}
    /\ DOMAIN Core.scripts = {ScriptA, ScriptB, ScriptZ}
    /\ Core.scripts[ScriptA] = Compiled(GoodScript)
    /\ Core.scripts[ScriptZ] = OldScript

(* A message names a signer identifier (as {:?} writes it: quoted and      *)
(* escaped) and the key of its entry.                                      *)
NamesSigner(msg, id, pos) ==
    msg = <<"No DKIM signer found with id ">> \o Debug(id)
          \o <<" for key ">> \o Debug(SieveSignKey \o <<46>> \o pos) \o <<".">>

(* C4 as stated: every sieve.sign entry with an unknown identifier makes   *)
(* the call fail with a message naming that identifier and its key.        *)
C4_Original ==
    Done =>
        \A i \in UnknownSigners :
            /\ Failed
            /\ NamesSigner(result.msg, cfg.sign[i], PosStr[i])

(* C4 amended: a sieve.sign entry with an unknown identifier makes the     *)
(* call fail; when the limits, the hostname and every script are good, the *)
(* message names the first such entry: its identifier and its key.         *)
C4_UnknownSigner ==
    (Done /\ UnknownSigners /= {}) =>
        /\ Failed
        /\ ~Succeeded
        /\ ReachesSigners =>
              /\ result.cat = "signer"
              /\ NamesSigner(result.msg, cfg.sign[Min(UnknownSigners)],
                             PosStr[Min(UnknownSigners)])

C4_Witness ==
    /\ Done
    /\ cfg.sign = <<SignerRsa, SignerEd>>
    /\ DOMAIN entry.signers = {SignerRsa}
    /\ result.msg    \* .. id "e\"d" for key "sieve.sign.1".
         = << "No DKIM signer found with id ", 34, 101, 92, 34, 100, 34,
              " for key ", 34, 115, 105, 101, 118, 101, 46, 115, 105, 103,
              110, 46, 49, 34, "." >>

(* C5: a configuration with neither sieve.hostname nor server.hostname     *)
(* never yields a record, and the finished call has returned an error.     *)
C5_NoHostname ==
    NoHostname => /\ ~Succeeded
                  /\ (Done => Failed)

C5_Witness ==
    /\ Done
    /\ NoHostname
    /\ Failed
    /\ result.cat = "hostname"
    /\ cfg.scripts /= <<>>
    /\ cfg.sign /= <<>>

(* C6 as stated: an unknown sieve.use-directory makes the call fail with   *)
(* a message naming that backend; absent gives none, known gives the       *)
(* backend.                                                                *)
C6_Original ==
    Done =>
        /\ UnknownDirectory
              => (Failed /\ result.msg = DirectoryErr(cfg.use_directory[1]))
        /\ (Succeeded /\ cfg.use_directory = None) => Core.config.db = None
        /\ (Succeeded /\ cfg.use_directory /= None)
              => Core.config.db
                   = Some(entry.directory.directories[cfg.use_directory[1]])

(* C6 amended: an unknown sieve.use-directory makes the call fail; when    *)
(* the limits, the hostname, every script and every signer are good, the   *)
(* message names that backend.  On success the storage handle is none when *)
(* the key is absent and the named backend otherwise.                      *)
C6_Directory ==
    Done =>
        /\ UnknownDirectory
              => /\ Failed
                 /\ ReachesAssembly
                      => /\ result.cat = "directory"
                         /\ result.msg = DirectoryErr(cfg.use_directory[1])
        /\ (Succeeded /\ cfg.use_directory = None) => Core.config.db = None
        /\ (Succeeded /\ cfg.use_directory /= None)
              => Core.config.db
                   = Some(entry.directory.directories[cfg.use_directory[1]])

C6_Witness ==
    /\ Done
    /\ cfg.use_directory = Some(DirLdap)
    /\ ReachesAssembly
    /\ cfg.sign /= <<>>
    /\ result.msg    \* Directory "ld\\ap" not found ..
         = << "Directory ", 34, 108, 100, 92, 92, 97, 112, 34,
              " not found for key \"sieve.use-directory\"." >>

(* C7 as stated: every error is a missing hostname, a compilation failure, *)
(* an unresolved signer or an unresolved storage backend.                  *)
C7_Original ==
    Failed => result.cat \in {"hostname", "compile", "signer", "directory"}

(* C7 amended: every error is one of six: a limit value that does not      *)
(* parse, a missing hostname, a script file that cannot be read, a         *)
(* compilation failure, an unresolved signer, an unresolved storage        *)
(* backend; each is returned only for a configuration that has that        *)
(* defect, and a configuration with none of them yields a record.          *)
C7_Categories ==
    /\ Failed =>
          /\ result.cat \in {"limit", "hostname", "file", "compile",
                             "signer", "directory"}
          /\ result.cat = "limit" => BadLimits /= {}
          /\ result.cat = "hostname" => NoHostname
          /\ result.cat = "file"
                => \E id \in DOMAIN cfg.scripts : cfg.scripts[id] = None
          /\ result.cat = "compile"
                => \E id \in DOMAIN cfg.scripts : cfg.scripts[id] = Some(BadScript)
          /\ result.cat = "signer" => UnknownSigners /= {}
          /\ result.cat = "directory" => UnknownDirectory
    /\ ( /\ Done
         /\ BadLimits = {}
         /\ ~NoHostname
         /\ FailingScripts = {}
         /\ UnknownSigners = {}
         /\ ~UnknownDirectory ) => Succeeded

C7_Witness ==
    /\ Failed
    /\ result.cat = "file"
    /\ ~NoHostname
    /\ UnknownSigners = {}
    /\ ~UnknownDirectory

(* C8: on success the signer list has one handle per sieve.sign entry, the *)
(* i-th being the signer-table handle of the i-th identifier.              *)
C8_SignerList ==
    Succeeded =>
        /\ Len(Core.config.sign) = Len(cfg.sign)
        /\ \A i \in DOMAIN cfg.sign :
              Core.config.sign[i] = entry.signers[cfg.sign[i]]

C8_Witness ==
    /\ Succeeded
    /\ \E i \in DOMAIN cfg.sign, j \in DOMAIN cfg.sign :
          /\ i < j
          /\ cfg.sign[i] = SignerEd
          /\ cfg.sign[j] = SignerRsa
          /\ Core.config.sign[i] = SignerHandle(SignerEd)
          /\ Core.config.sign[j] = SignerHandle(SignerRsa)

C8_WitnessDuplicate ==
    Succeeded /\ cfg.sign = <<SignerRsa, SignerRsa>> /\ Len(Core.config.sign) = Len(cfg.sign)

(* C9: the error returned is that of the first failing step in the order   *)
(* limits, hostname, scripts (in sub-key order, the file read before the   *)
(* compilation), signers (in list order), storage backend.                 *)
C9_FirstFailure ==
    Done =>
        IF BadLimits /= {}
        THEN /\ result.cat = "limit"
             /\ result.msg = <<"Invalid value for property "
                                  \o LimitKeys[Min(BadLimits)] \o ".">>
        ELSE IF NoHostname
        THEN result.cat = "hostname"
        ELSE IF FailingScripts /= {}
        THEN LET id == SubKeys(cfg)[Min(FailingScripts)]
             IN  IF cfg.scripts[id] = None
                 THEN /\ result.cat = "file"
                      /\ result.msg = FileContents(cfg, id).err
                 ELSE /\ result.cat = "compile"
                      /\ result.msg = CompileErr(id, Compile(cfg.scripts[id][1]).err)
        ELSE IF UnknownSigners /= {}
        THEN /\ result.cat = "signer"
             /\ result.msg = SignerErr(cfg.sign[Min(UnknownSigners)],
                                       PosStr[Min(UnknownSigners)])
        ELSE IF UnknownDirectory
        THEN /\ result.cat = "directory"
             /\ result.msg = DirectoryErr(cfg.use_directory[1])
        ELSE Succeeded

C9_Witness ==
    /\ Done
    /\ BadLimits = {}
    /\ NoHostname
    /\ FailingScripts /= {}
    /\ UnknownSigners /= {}
    /\ UnknownDirectory
    /\ result.cat = "hostname"

C9_WitnessSignerBeforeDirectory ==
    /\ Done
    /\ ReachesSigners
    /\ UnknownSigners /= {}
    /\ UnknownDirectory
    /\ result.cat = "signer"

(* C10: whatever the outcome, the signer table and the directory and       *)
(* lookup tables are as at entry, the script cache differs from its entry  *)
(* content only at sieve.scripts sub-keys, and a failed call keeps the     *)
(* scripts it inserted before the failing step.                            *)
C10_Frame ==
    /\ ctx.signers = entry.signers
    /\ ctx.directory = entry.directory
    /\ \A k \in DOMAIN entry.scripts : k \in DOMAIN ctx.scripts
    /\ \A k \in DOMAIN ctx.scripts :
          k \notin DOMAIN cfg.scripts
             => (k \in DOMAIN entry.scripts /\ ctx.scripts[k] = entry.scripts[k])
    /\ (Done /\ Failed /\ ReachesHostname /\ ~NoHostname) =>
          \A i \in DOMAIN SubKeys(cfg) :
              (\A j \in FailingScripts : i < j)
                 => /\ SubKeys(cfg)[i] \in DOMAIN ctx.scripts
                    /\ ctx.scripts[SubKeys(cfg)[i]]
                         = Compiled(cfg.scripts[SubKeys(cfg)[i]][1])

C10_Witness ==
    /\ Done
    /\ Failed
    /\ result.cat = "compile"
    /\ DOMAIN entry.scripts = {ScriptA, ScriptZ}
    /\ DOMAIN ctx.scripts = {ScriptA, ScriptZ}
    /\ ctx.scripts[ScriptA] = Compiled(GoodScript)
    /\ ctx.scripts[ScriptZ] = OldScript

C10_WitnessLaterStep ==
    /\ Done
    /\ result.cat \in {"signer", "directory"}
    /\ entry.scripts = <<>>
    /\ DOMAIN ctx.scripts = {ScriptA, ScriptB}

====
